---- MODULE Spec2Model ----
(***************************************************************************)
(* Model of the user authentication service                               *)
(* (0x03-user_authentication_service: user.py, db.py, auth.py, app.py).   *)
(*                                                                         *)
(* The users table is a sequence of rows in insertion (rowid) order.  An   *)
(* absent value (Python None, SQL NULL) is None, the empty string is       *)
(* EmptyStr; e-mails, passwords and tokens are positive integers.          *)
(***************************************************************************)
EXTENDS Integers, Sequences, FiniteSets, TLC

\* ------------------------------------------------------------- bounds
\* how many tokens _generate_uuid hands out in a run
MaxTokens == 2
\* how many rows the users table may hold
MaxUsers == 2

\* ------------------------------------------------------------- values
None == -1
EmptyStr == 0

\* the e-mail addresses and the passwords a request may carry
Emails == {1, 2}
Passwords == {1, 2}
Tokens == 1..MaxTokens
\* the salts bcrypt.gensalt() may draw
Salts == {1, 2}
\* the request threads of the server
Threads == {1, 2}

\* what a request can hand to the service: a form field or cookie may be absent
EmailArgs == Emails \cup {None}
PasswordArgs == Passwords \cup {None}
TokenArgs == Tokens \cup {None, EmptyStr}
IdArgs == (0..(MaxUsers + 1)) \cup {None}

\* Python truthiness of None, "", 0
Truthy(x) == x \notin {None, EmptyStr}

VARIABLES
    users,    \* the rows of the users table, in rowid order
    issued,   \* issued[t]: the id of the user token t was generated for
    plain,    \* plain[i]: the password the hash of row i was last made from
    ret,      \* the last Auth call of the sequential service and its outcome
    pc,       \* per thread: the position inside its current Auth call
    loc       \* per thread: the arguments, locals and outcome of its call

vars == <<users, issued, plain, ret, pc, loc>>

\* ------------------------------------------------------------- user.py
Columns == {"id", "email", "hashed_password", "session_id", "reset_token"}

\* attributes the class User has besides its columns
ClassAttrs == {"metadata"}

User(id, email, hashed_password) ==
    [id |-> id, email |-> email, hashed_password |-> hashed_password,
     session_id |-> None, reset_token |-> None]

\* ------------------------------------------------------------- bcrypt
\* bcrypt.hashpw: the hash carries its salt beside the digest of the password
\* under that salt (one integer: digest * SaltBase + salt)
SaltBase == Cardinality(Salts) + 1

Hashpw(password, salt) == password * SaltBase + salt

\* the salt a hash was made with
SaltOf(hashed) == hashed % SaltBase

\* bcrypt.checkpw re-hashes the candidate with the salt stored in the hash
Checkpw(password, hashed) == Hashpw(password, SaltOf(hashed)) = hashed

\* _hash_password: password.encode fails on None
HashPassword(password, salt) ==
    IF password = None
    THEN [exc |-> "AttributeError", hash |-> None]
    ELSE [exc |-> "none", hash |-> Hashpw(password, salt)]

\* uuid4: a value no earlier call returned
GenerateUuid(iss) == Len(iss) + 1

\* ------------------------------------------------------------- db.py
Min(S) == CHOOSE x \in S : \A y \in S : x <= y

\* DB.add_user: a NULL in a NOT NULL column makes the commit fail; the
\* handler rolls back and returns None
AddUser(us, email, hashed_password) ==
    IF email = None \/ hashed_password = None
    THEN [users |-> us, val |-> None]
    ELSE [users |-> Append(us, User(Len(us) + 1, email, hashed_password)),
          val |-> Len(us) + 1]

\* find_user_by comparing as Python does: None equals the None of a column
FindUserBy_NoneMatches(us, key, value) ==
    IF key \notin Columns
    THEN [exc |-> "InvalidRequestError", row |-> 0]
    ELSE LET m == {i \in 1..Len(us) : us[i][key] = value}
         IN IF m = {}
            THEN [exc |-> "NoResultFound", row |-> 0]
            ELSE [exc |-> "none", row |-> Min(m)]

\* DB.find_user_by with one filter: the first row whose column equals the
\* value; a NULL value matches no row
FindUserBy(us, key, value) ==
    IF key \notin Columns
    THEN [exc |-> "InvalidRequestError", row |-> 0]
    ELSE LET m == {i \in 1..Len(us) : value # None /\ us[i][key] = value}
         IN IF m = {}
            THEN [exc |-> "NoResultFound", row |-> 0]
            ELSE [exc |-> "none", row |-> Min(m)]

\* update_user writing only the password column of a multi-column update
UpdateUser_FirstFieldOnly(us, user_id, kwargs) ==
    LET f == FindUserBy(us, "id", user_id)
        keys == IF "hashed_password" \in DOMAIN kwargs
                THEN {"hashed_password"} ELSE DOMAIN kwargs
    IN IF f.exc # "none"
       THEN [exc |-> f.exc, users |-> us]
       ELSE [exc |-> "none",
             users |-> [i \in 1..Len(us) |->
                          IF us[i].id = user_id
                          THEN [c \in Columns |->
                                  IF c \in keys THEN kwargs[c] ELSE us[i][c]]
                          ELSE us[i]]]

\* update_user whose UPDATE has lost its filter on the id
UpdateUser_NoFilter(us, user_id, kwargs) ==
    LET f == FindUserBy(us, "id", user_id)
    IN IF f.exc # "none"
       THEN [exc |-> f.exc, users |-> us]
       ELSE [exc |-> "none",
             users |-> [i \in 1..Len(us) |->
                          [c \in Columns |->
                             IF c \in DOMAIN kwargs THEN kwargs[c]
                             ELSE us[i][c]]]]

\* update_user whose UPDATE leaves a column that already holds a value
UpdateUser_FirstWriterWins(us, user_id, kwargs) ==
    LET f == FindUserBy(us, "id", user_id)
    IN IF f.exc # "none"
       THEN [exc |-> f.exc, users |-> us]
       ELSE [exc |-> "none",
             users |-> [i \in 1..Len(us) |->
                          IF us[i].id = user_id
                          THEN [c \in Columns |->
                                  IF c \in DOMAIN kwargs /\ us[i][c] = None
                                  THEN kwargs[c] ELSE us[i][c]]
                          ELSE us[i]]]

\* update_user writing the columns it knows before it rejects the others
UpdateUser_WritesBeforeCheck(us, user_id, kwargs) ==
    LET f == FindUserBy(us, "id", user_id)
        written == [i \in 1..Len(us) |->
                      IF us[i].id = user_id
                      THEN [c \in Columns |->
                              IF c \in DOMAIN kwargs THEN kwargs[c]
                              ELSE us[i][c]]
                      ELSE us[i]]
    IN IF f.exc # "none"
       THEN [exc |-> f.exc, users |-> us]
       ELSE IF \E k \in DOMAIN kwargs : k \notin Columns
       THEN [exc |-> "ValueError", users |-> written]
       ELSE [exc |-> "none", users |-> written]

\* DB.update_user: find_user_by raises when no row has the id (the None
\* test after it never fires); a key that is no attribute of User raises
\* before the UPDATE; an attribute that is no column passes hasattr and makes
\* the UPDATE statement itself fail; the UPDATE sets all fields of the rows with that id in one statement
UpdateUser(us, user_id, kwargs) ==
    LET f == FindUserBy(us, "id", user_id)
    IN IF f.exc # "none"
       THEN [exc |-> f.exc, users |-> us]
       ELSE IF \E k \in DOMAIN kwargs : k \notin Columns \cup ClassAttrs
       THEN [exc |-> "ValueError", users |-> us]
       ELSE IF \E k \in DOMAIN kwargs : k \in ClassAttrs
       THEN [exc |-> "ArgumentError", users |-> us]
       ELSE [exc |-> "none",
             users |-> [i \in 1..Len(us) |->
                          IF us[i].id = user_id
                          THEN [c \in Columns |->
                                  IF c \in DOMAIN kwargs THEN kwargs[c]
                                  ELSE us[i][c]]
                          ELSE us[i]]]

\* ------------------------------------------------------------- auth.py
Out(kind, val, us, iss) ==
    [kind |-> kind, val |-> val, users |-> us, issued |-> iss]

\* register_user inserting the row before it looks the e-mail up
RegisterUser_InsertBeforeCheck(us, iss, email, password, salt) ==
    LET f == FindUserBy(us, "email", email)
        h == HashPassword(password, salt)
    IN IF h.exc # "none"
       THEN Out(IF f.exc = "none" THEN "ValueError" ELSE h.exc, None, us, iss)
       ELSE LET a == AddUser(us, email, h.hash)
            IN IF f.exc = "none"
               THEN Out("ValueError", None, a.users, iss)
               ELSE Out("return", a.val, a.users, iss)

\* Auth.register_user
RegisterUser(us, iss, email, password, salt) ==
    LET f == FindUserBy(us, "email", email)
    IN IF f.exc = "none"
       THEN Out("ValueError", None, us, iss)
       ELSE LET h == HashPassword(password, salt)
            IN IF h.exc # "none"
               THEN Out(h.exc, None, us, iss)
               ELSE LET a == AddUser(us, email, h.hash)
                    IN Out("return", a.val, a.users, iss)

\* valid_login accepting every password of a registered e-mail
ValidLogin_AnyPassword(us, iss, email, password) ==
    LET f == FindUserBy(us, "email", email)
    IN IF f.exc # "none"
       THEN Out("return", 0, us, iss)
       ELSE IF password = None
       THEN Out("AttributeError", None, us, iss)
       ELSE Out("return", 1, us, iss)

\* Auth.valid_login (True is 1, False is 0)
ValidLogin(us, iss, email, password) ==
    LET f == FindUserBy(us, "email", email)
    IN IF f.exc # "none"
       THEN Out("return", 0, us, iss)
       ELSE IF password = None
       THEN Out("AttributeError", None, us, iss)
       ELSE Out("return",
                IF Checkpw(password, us[f.row].hashed_password) THEN 1 ELSE 0,
                us, iss)

\* create_session leaving a session that is already there in place
CreateSession_KeepsOld(us, iss, email) ==
    LET f == FindUserBy(us, "email", email)
    IN IF f.exc # "none"
       THEN Out("return", None, us, iss)
       ELSE LET session_id == GenerateUuid(iss)
                u == IF us[f.row].session_id # None
                     THEN [exc |-> "none", users |-> us]
                     ELSE UpdateUser(us, us[f.row].id,
                                     [session_id |-> session_id])
                iss2 == Append(iss, us[f.row].id)
            IN Out("return", session_id, u.users, iss2)

\* Auth.create_session
CreateSession(us, iss, email) ==
    LET f == FindUserBy(us, "email", email)
    IN IF f.exc # "none"
       THEN Out("return", None, us, iss)
       ELSE LET session_id == GenerateUuid(iss)
                u == UpdateUser(us, us[f.row].id, [session_id |-> session_id])
                iss2 == Append(iss, us[f.row].id)
            IN IF u.exc # "none"
               THEN Out(u.exc, None, u.users, iss2)
               ELSE Out("return", session_id, u.users, iss2)

\* Auth.get_user_from_session_id (returns the id of the user, or None)
GetUserFromSessionId(us, iss, session_id) ==
    IF ~Truthy(session_id)
    THEN Out("return", None, us, iss)
    ELSE LET f == FindUserBy(us, "session_id", session_id)
         IN IF f.exc # "none"
            THEN Out("return", None, us, iss)
            ELSE Out("return", us[f.row].id, us, iss)

\* destroy_session clearing the reset token instead of the session id
DestroySession_WrongColumn(us, iss, user_id) ==
    IF user_id \in {None, 0}
    THEN Out("return", None, us, iss)
    ELSE LET u == UpdateUser(us, user_id, [reset_token |-> None])
         IN IF u.exc # "none"
            THEN Out(u.exc, None, u.users, iss)
            ELSE Out("return", None, u.users, iss)

\* destroy_session clearing the session of every account
DestroySession_AllRows(us, iss, user_id) ==
    IF user_id \in {None, 0}
    THEN Out("return", None, us, iss)
    ELSE LET u == UpdateUser(us, user_id, [session_id |-> None])
         IN IF u.exc # "none"
            THEN Out(u.exc, None, u.users, iss)
            ELSE Out("return", None,
                     [i \in 1..Len(us) |-> [us[i] EXCEPT !.session_id = None]],
                     iss)

\* Auth.destroy_session
DestroySession(us, iss, user_id) ==
    IF user_id \in {None, 0}
    THEN Out("return", None, us, iss)
    ELSE LET u == UpdateUser(us, user_id, [session_id |-> None])
         IN IF u.exc # "none"
            THEN Out(u.exc, None, u.users, iss)
            ELSE Out("return", None, u.users, iss)

\* get_reset_password_token writing the token before it looks the e-mail up
GetResetPasswordToken_WritesFirst(us, iss, email) ==
    LET f == FindUserBy(us, "email", email)
        reset_token == GenerateUuid(iss)
        iss2 == Append(iss, IF us = <<>> THEN None ELSE us[1].id)
    IN IF f.exc # "none"
       THEN IF us = <<>>
            THEN Out("ValueError", None, us, iss)
            ELSE Out("ValueError", None,
                     UpdateUser(us, us[1].id,
                                [reset_token |-> reset_token]).users, iss2)
       ELSE LET u == UpdateUser(us, us[f.row].id,
                                [reset_token |-> reset_token])
            IN Out("return", reset_token, u.users,
                   Append(iss, us[f.row].id))

\* Auth.get_reset_password_token
GetResetPasswordToken(us, iss, email) ==
    LET f == FindUserBy(us, "email", email)
    IN IF f.exc # "none"
       THEN Out("ValueError", None, us, iss)
       ELSE LET reset_token == GenerateUuid(iss)
                u == UpdateUser(us, us[f.row].id, [reset_token |-> reset_token])
                iss2 == Append(iss, us[f.row].id)
            IN IF u.exc # "none"
               THEN Out(u.exc, None, u.users, iss2)
               ELSE Out("return", reset_token, u.users, iss2)

\* update_password that stores the new hash and leaves the reset token
UpdatePassword_KeepsToken(us, iss, reset_token, password, salt) ==
    LET f == FindUserBy(us, "reset_token", reset_token)
        h == HashPassword(password, salt)
    IN IF f.exc # "none"
       THEN Out("ValueError", None, us, iss)
       ELSE IF h.exc # "none"
       THEN Out(h.exc, None, us, iss)
       ELSE Out("return", None,
                UpdateUser(us, us[f.row].id, [hashed_password |-> h.hash]).users,
                iss)

\* update_password that also logs the account out
UpdatePassword_ClearsSession(us, iss, reset_token, password, salt) ==
    LET f == FindUserBy(us, "reset_token", reset_token)
        h == HashPassword(password, salt)
    IN IF f.exc # "none"
       THEN Out("ValueError", None, us, iss)
       ELSE IF h.exc # "none"
       THEN Out(h.exc, None, us, iss)
       ELSE Out("return", None,
                UpdateUser(us, us[f.row].id,
                           [hashed_password |-> h.hash, reset_token |-> None,
                            session_id |-> None]).users,
                iss)

\* update_password storing the new hash without clearing or needing a token
\* of the account: the hash goes to the first account
UpdatePassword_FirstRow(us, iss, reset_token, password, salt) ==
    LET f == FindUserBy(us, "reset_token", reset_token)
        h == HashPassword(password, salt)
    IN IF f.exc # "none"
       THEN Out("ValueError", None, us, iss)
       ELSE IF h.exc # "none"
       THEN Out(h.exc, None, us, iss)
       ELSE Out("return", None,
                UpdateUser(UpdateUser(us, us[f.row].id,
                                      [reset_token |-> None]).users,
                           us[1].id, [hashed_password |-> h.hash]).users,
                iss)

\* Auth.update_password
UpdatePassword(us, iss, reset_token, password, salt) ==
    LET f == FindUserBy(us, "reset_token", reset_token)
    IN IF f.exc # "none"
       THEN Out("ValueError", None, us, iss)
       ELSE LET h == HashPassword(password, salt)
            IN IF h.exc # "none"
               THEN Out(h.exc, None, us, iss)
               ELSE LET u == UpdateUser(us, us[f.row].id,
                                        [hashed_password |-> h.hash,
                                         reset_token |-> None])
                    IN IF u.exc # "none"
                       THEN Out(u.exc, None, u.users, iss)
                       ELSE Out("return", None, u.users, iss)

\* ------------------------------------------------------------- the service
\* The value column `key` holds in the row with id `user_id` (None if no row)
Before(us, user_id, key) ==
    LET f == FindUserBy(us, "id", user_id)
    IN IF f.exc = "none" THEN us[f.row][key] ELSE None

\* the id of the first row with the e-mail / the reset token (None if no row)
IdByEmail(us, email) ==
    LET f == FindUserBy(us, "email", email)
    IN IF f.exc = "none" THEN us[f.row].id ELSE None

IdByResetToken(us, reset_token) ==
    LET f == FindUserBy(us, "reset_token", reset_token)
    IN IF f.exc = "none" THEN us[f.row].id ELSE None

\* One Auth call at a time: each action is one whole call.  ret records the
\* call (op, first argument a1), its outcome (kind, val) and the value the
\* field it writes held before the call (old); plain records, per account,
\* the password its stored hash was last computed from.
Call(op, a1, old, o, pl) ==
    /\ Len(o.users) <= MaxUsers
    /\ Len(o.issued) <= MaxTokens
    /\ users' = o.users
    /\ issued' = o.issued
    /\ plain' = pl
    /\ ret' = [op |-> op, a1 |-> a1, kind |-> o.kind, val |-> o.val, old |-> old]
    /\ UNCHANGED <<pc, loc>>

Register ==
    \E email \in EmailArgs, password \in PasswordArgs, salt \in Salts :
        LET o == RegisterUser(users, issued, email, password, salt)
        IN Call("register_user", email, None, o,
                IF Len(o.users) > Len(users) THEN Append(plain, password)
                ELSE plain)

Login ==
    \E email \in EmailArgs, password \in PasswordArgs :
        Call("valid_login", email, None,
             ValidLogin(users, issued, email, password), plain)

NewSession ==
    \E email \in EmailArgs :
        Call("create_session", email,
             Before(users, IdByEmail(users, email), "session_id"),
             CreateSession(users, issued, email), plain)

Lookup ==
    \E session_id \in TokenArgs :
        Call("get_user_from_session_id", session_id, None,
             GetUserFromSessionId(users, issued, session_id), plain)

Logout ==
    \E user_id \in IdArgs :
        Call("destroy_session", user_id,
             Before(users, user_id, "session_id"),
             DestroySession(users, issued, user_id), plain)

ResetRequest ==
    \E email \in EmailArgs :
        Call("get_reset_password_token", email,
             Before(users, IdByEmail(users, email), "reset_token"),
             GetResetPasswordToken(users, issued, email), plain)

ResetPassword ==
    \E reset_token \in TokenArgs, password \in PasswordArgs, salt \in Salts :
        LET o == UpdatePassword(users, issued, reset_token, password, salt)
            id == IdByResetToken(users, reset_token)
        IN Call("update_password", reset_token,
                Before(users, id, "hashed_password"), o,
                IF o.kind = "return"
                THEN [i \in 1..Len(plain) |->
                        IF users[i].id = id THEN password ELSE plain[i]]
                ELSE plain)

NoCall == [op |-> "init", a1 |-> None, kind |-> "return", val |-> None,
           old |-> None]

NoLocals == [op |-> "none", email |-> None, password |-> None,
             token |-> None, user |-> None,
             kind |-> "none", val |-> None, overlap |-> FALSE]

\* Auth() / DB(): the tables are dropped and created empty
Init ==
    /\ users = <<>>
    /\ issued = <<>>
    /\ plain = <<>>
    /\ ret = NoCall
    /\ pc = [t \in Threads |-> "idle"]
    /\ loc = [t \in Threads |-> NoLocals]

Next ==
    \/ Logout
    \/ Register
    \/ Login
    \/ NewSession
    \/ Lookup
    \/ ResetRequest
    \/ ResetPassword

Spec == Init /\ [][Next]_vars

\* ------------------------------------------------------------- threads
\* The server handles each request on its own thread; a call is a sequence of
\* store accesses, and the accesses of two calls interleave.  A thread that
\* enters a call while another is inside one marks both as overlapping.
Enter(t, locals) ==
    LET busy == {u \in Threads \ {t} : pc[u] # "idle"}
    IN loc' = [u \in Threads |->
                 IF u = t THEN [locals EXCEPT !.overlap = busy # {}]
                 ELSE IF u \in busy THEN [loc[u] EXCEPT !.overlap = TRUE]
                 ELSE loc[u]]

Leave(t, kind, val) ==
    /\ pc' = [pc EXCEPT ![t] = "idle"]
    /\ loc' = [loc EXCEPT ![t].kind = kind, ![t].val = val]

\* a request thread enters Auth.register_user
TRegisterCall(t) ==
    /\ pc[t] = "idle"
    /\ \E email \in EmailArgs, password \in PasswordArgs :
          Enter(t, [NoLocals EXCEPT !.op = "register_user",
                                    !.email = email, !.password = password,
                                    !.kind = "running"])
    /\ pc' = [pc EXCEPT ![t] = "register_find"]
    /\ UNCHANGED <<users, issued, plain, ret>>

\* auth.py line 65: the lookup; a hit raises ValueError
TRegisterFind(t) ==
    /\ pc[t] = "register_find"
    /\ IF FindUserBy(users, "email", loc[t].email).exc = "none"
       THEN Leave(t, "ValueError", None)
       ELSE /\ pc' = [pc EXCEPT ![t] = "register_add"]
            /\ UNCHANGED loc
    /\ UNCHANGED <<users, issued, plain, ret>>

\* auth.py lines 68-69: hash the password and insert the row
TRegisterAdd(t) ==
    /\ pc[t] = "register_add"
    /\ \E salt \in Salts :
          LET h == HashPassword(loc[t].password, salt)
              a == AddUser(users, loc[t].email, h.hash)
          IN IF h.exc # "none"
             THEN /\ Leave(t, h.exc, None)
                  /\ UNCHANGED <<users, plain>>
             ELSE /\ Len(a.users) <= MaxUsers
                  /\ users' = a.users
                  /\ plain' = IF Len(a.users) > Len(users)
                              THEN Append(plain, loc[t].password) ELSE plain
                  /\ Leave(t, "return", a.val)
    /\ UNCHANGED <<issued, ret>>

ConcNext ==
    \E t \in Threads :
        \/ TRegisterCall(t)
        \/ TRegisterFind(t)
        \/ TRegisterAdd(t)

ConcSpec == Init /\ [][ConcNext]_vars

\* ------------------------------------------------------------- sessions
\* Requests that log in and log out on the request threads, over accounts
\* registered by requests that ran alone.

\* a request thread enters Auth.create_session
TCreateSessionCall(t) ==
    /\ pc[t] = "idle"
    /\ \E email \in EmailArgs :
          Enter(t, [NoLocals EXCEPT !.op = "create_session",
                                    !.email = email, !.kind = "running"])
    /\ pc' = [pc EXCEPT ![t] = "session_find"]
    /\ UNCHANGED <<users, issued, plain, ret>>

\* auth.py lines 102-105: the lookup; a miss returns None
TCreateSessionFind(t) ==
    /\ pc[t] = "session_find"
    /\ LET f == FindUserBy(users, "email", loc[t].email)
       IN IF f.exc # "none"
          THEN Leave(t, "return", None)
          ELSE /\ pc' = [pc EXCEPT ![t] = "session_uuid"]
               /\ loc' = [loc EXCEPT ![t].user = users[f.row].id]
    /\ UNCHANGED <<users, issued, plain, ret>>

\* auth.py line 106: the session id is generated
TCreateSessionUuid(t) ==
    /\ pc[t] = "session_uuid"
    /\ Len(issued) < MaxTokens
    /\ issued' = Append(issued, loc[t].user)
    /\ loc' = [loc EXCEPT ![t].token = GenerateUuid(issued)]
    /\ pc' = [pc EXCEPT ![t] = "session_update"]
    /\ UNCHANGED <<users, plain, ret>>

\* auth.py lines 107-108: the session id is stored and returned
TCreateSessionUpdate(t) ==
    /\ pc[t] = "session_update"
    /\ LET u == UpdateUser(users, loc[t].user, [session_id |-> loc[t].token])
       IN /\ users' = u.users
          /\ IF u.exc # "none"
             THEN Leave(t, u.exc, None)
             ELSE Leave(t, "return", loc[t].token)
    /\ UNCHANGED <<issued, plain, ret>>

\* a request thread enters the logout handler with its session cookie
TLogoutCall(t) ==
    /\ pc[t] = "idle"
    /\ \E session_id \in TokenArgs :
          Enter(t, [NoLocals EXCEPT !.op = "logout", !.token = session_id,
                                    !.kind = "running"])
    /\ pc' = [pc EXCEPT ![t] = "logout_lookup"]
    /\ UNCHANGED <<users, issued, plain, ret>>

\* app.py lines 86-88: the account of the cookie; none aborts with 403
TLogoutLookup(t) ==
    /\ pc[t] = "logout_lookup"
    /\ LET o == GetUserFromSessionId(users, issued, loc[t].token)
       IN IF o.val = None
          THEN Leave(t, "403", None)
          ELSE /\ pc' = [pc EXCEPT ![t] = "logout_destroy"]
               /\ loc' = [loc EXCEPT ![t].user = o.val]
    /\ UNCHANGED <<users, issued, plain, ret>>

\* app.py lines 89-90: destroy_session on the id found, then the redirect
TLogoutDestroy(t) ==
    /\ pc[t] = "logout_destroy"
    /\ LET o == DestroySession(users, issued, loc[t].user)
       IN /\ users' = o.users
          /\ IF o.kind # "return"
             THEN Leave(t, o.kind, None)
             ELSE Leave(t, "302", None)
    /\ UNCHANGED <<issued, plain, ret>>

\* a registration that runs alone (the password and the salt do not matter
\* to the sessions)
Signup ==
    \E email \in Emails :
        LET password == Min(Passwords)
            o == RegisterUser(users, issued, email, password, Min(Salts))
        IN Call("register_user", email, None, o,
                IF Len(o.users) > Len(users) THEN Append(plain, password)
                ELSE plain)

SessionNext ==
    \/ Signup
    \/ \E t \in Threads :
          \/ TCreateSessionCall(t)
          \/ TCreateSessionFind(t)
          \/ TCreateSessionUuid(t)
          \/ TCreateSessionUpdate(t)
          \/ TLogoutCall(t)
          \/ TLogoutLookup(t)
          \/ TLogoutDestroy(t)

SessionSpec == Init /\ [][SessionNext]_vars

\* ------------------------------------------------------------- resets
\* Password updates on the request threads, over accounts registered and
\* reset tokens requested by requests that ran alone.

\* a request thread enters Auth.update_password
TUpdatePasswordCall(t) ==
    /\ pc[t] = "idle"
    /\ \E reset_token \in TokenArgs, password \in Passwords :
          Enter(t, [NoLocals EXCEPT !.op = "update_password",
                                    !.token = reset_token,
                                    !.password = password,
                                    !.kind = "running"])
    /\ pc' = [pc EXCEPT ![t] = "password_find"]
    /\ UNCHANGED <<users, issued, plain, ret>>

\* auth.py lines 171-174: the lookup by reset token; a miss raises ValueError
TUpdatePasswordFind(t) ==
    /\ pc[t] = "password_find"
    /\ LET f == FindUserBy(users, "reset_token", loc[t].token)
       IN IF f.exc # "none"
          THEN Leave(t, "ValueError", None)
          ELSE /\ pc' = [pc EXCEPT ![t] = "password_update"]
               /\ loc' = [loc EXCEPT ![t].user = users[f.row].id]
    /\ UNCHANGED <<users, issued, plain, ret>>

\* auth.py lines 176-177: hash the password, store it and clear the token
\* (the salt drawn does not matter to the token)
TUpdatePasswordUpdate(t) ==
    /\ pc[t] = "password_update"
    /\ \E salt \in {Min(Salts)} :
          LET h == HashPassword(loc[t].password, salt)
              u == UpdateUser(users, loc[t].user,
                              [hashed_password |-> h.hash,
                               reset_token |-> None])
          IN IF h.exc # "none"
             THEN /\ Leave(t, h.exc, None)
                  /\ UNCHANGED <<users, plain>>
             ELSE /\ users' = u.users
                  /\ plain' = IF u.exc # "none" THEN plain
                              ELSE [i \in 1..Len(plain) |->
                                      IF users[i].id = loc[t].user
                                      THEN loc[t].password ELSE plain[i]]
                  /\ IF u.exc # "none"
                     THEN Leave(t, u.exc, None)
                     ELSE Leave(t, "return", None)
    /\ UNCHANGED <<issued, ret>>

ResetNext ==
    \/ Signup
    \/ ResetRequest
    \/ \E t \in Threads :
          \/ TUpdatePasswordCall(t)
          \/ TUpdatePasswordFind(t)
          \/ TUpdatePasswordUpdate(t)

ResetSpec == Init /\ [][ResetNext]_vars

\* ------------------------------------------------------------- the store
\* The store's own operations, called directly: update_user with any id and
\* any keyword arguments, and the construction of a new DB.

\* keyword arguments a caller may pass to update_user ("bogus" is no
\* attribute of User)
KwargsArgs ==
    <<[session_id |-> 1], [session_id |-> None], [reset_token |-> 2],
      [email |-> 2], [bogus |-> 1], [session_id |-> 2, bogus |-> 1],
      [reset_token |-> 1, metadata |-> 1]>>

\* DB.update_user; ret.val counts the keyword arguments that name a column
StoreUpdate ==
    \E user_id \in IdArgs, k \in 1..Len(KwargsArgs) :
        LET u == UpdateUser(users, user_id, KwargsArgs[k])
        IN /\ users' = u.users
           /\ ret' = [op |-> "update_user", a1 |-> user_id,
                      kind |-> IF u.exc = "none" THEN "return" ELSE u.exc,
                      val |-> Cardinality(DOMAIN KwargsArgs[k] \cap Columns),
                      old |-> None]
           /\ UNCHANGED <<issued, plain, pc, loc>>

\* DB.__init__ (Auth.__init__): drop_all, create_all
Construct ==
    /\ users' = <<>>
    /\ plain' = <<>>
    /\ ret' = [NoCall EXCEPT !.op = "__init__"]
    /\ UNCHANGED <<issued, pc, loc>>

StoreNext ==
    \/ Signup
    \/ StoreUpdate
    \/ Construct

StoreSpec == Init /\ [][StoreNext]_vars

\* ------------------------------------------------------------- app.py
\* The routes of the service, one whole request per action.  ret records the
\* route (op), the form fields or the cookie (a1, a2), the status of the
\* response (kind) and its body or cookie (val).
Status(kind) ==
    IF kind = "return" THEN "200"
    ELSE IF kind = "ValueError" THEN "400"
    ELSE "500"

Respond(op, a1, a2, status, val, o, pl) ==
    /\ Len(o.users) <= MaxUsers
    /\ Len(o.issued) <= MaxTokens
    /\ users' = o.users
    /\ issued' = o.issued
    /\ plain' = pl
    /\ ret' = [op |-> op, a1 |-> a1, a2 |-> a2, kind |-> status,
               val |-> val, old |-> None]
    /\ UNCHANGED <<pc, loc>>

\* POST /users
AppUsers ==
    \E email \in EmailArgs, password \in PasswordArgs, salt \in Salts :
        LET o == RegisterUser(users, issued, email, password, salt)
        IN Respond("users", email, password, Status(o.kind),
                   IF o.kind = "return" THEN email ELSE None, o,
                   IF Len(o.users) > Len(users) THEN Append(plain, password)
                   ELSE plain)

\* POST /sessions
AppLogin ==
    \E email \in EmailArgs, password \in PasswordArgs :
        LET v == ValidLogin(users, issued, email, password)
            c == CreateSession(users, issued, email)
        IN IF v.kind # "return"
           THEN Respond("login", email, password, "500", None, v, plain)
           ELSE IF v.val = 0
           THEN Respond("login", email, password, "401", None, v, plain)
           ELSE Respond("login", email, password, Status(c.kind), c.val, c,
                        plain)

\* DELETE /sessions
AppLogout ==
    \E session_id \in TokenArgs :
        LET g == GetUserFromSessionId(users, issued, session_id)
            d == DestroySession(users, issued, g.val)
        IN IF g.val = None
           THEN Respond("logout", session_id, None, "403", None, g, plain)
           ELSE Respond("logout", session_id, None,
                        IF d.kind = "return" THEN "302" ELSE "500", None, d,
                        plain)

\* GET /profile
AppProfile ==
    \E session_id \in TokenArgs :
        LET g == GetUserFromSessionId(users, issued, session_id)
        IN IF g.val = None
           THEN Respond("profile", session_id, None, "403", None, g, plain)
           ELSE Respond("profile", session_id, None, "200",
                        Before(users, g.val, "email"), g, plain)

AppNext ==
    \/ AppUsers
    \/ AppLogin
    \/ AppLogout
    \/ AppProfile

AppSpec == Init /\ [][AppNext]_vars

\* ------------------------------------------------ api/v1/auth (Basic auth)
\* A str is a sequence of characters.  A character of a path or of a header
\* is the position it has in the base64 alphabet ('A' is 0, 'a' is 26, '/'
\* is 63), '=' and ' ' follow the alphabet; the text base64 decodes to is
\* the sequence of its UTF-8 bytes.  None, where a str or a list is
\* expected, is the sequence NoneStr / NoneList.
MaxPathLen == 3
MaxPayload == 4
MaxTextLen == 4

NoneStr == <<None>>
NoneList == <<NoneStr>>
Slash == 63
Pad == 64
Space == 65
Colon == 58

TruthyStr(s) == s # NoneStr /\ s # <<>>

SeqsUpTo(chars, n) == UNION {[1..k -> chars] : k \in 0..n}

\* str.rstrip(ch)
RECURSIVE RStrip(_, _)
RStrip(s, ch) ==
    IF s # <<>> /\ s[Len(s)] = ch THEN RStrip(SubSeq(s, 1, Len(s) - 1), ch)
    ELSE s

\* str.startswith(prefix)
StartsWith(s, prefix) ==
    Len(prefix) <= Len(s) /\ SubSeq(s, 1, Len(prefix)) = prefix

\* require_auth without the test for a missing path
RequireAuth_NoPathTest(path, excluded_paths) ==
    IF path = NoneStr
    THEN [exc |-> "AttributeError", val |-> FALSE]
    ELSE IF excluded_paths = NoneList \/ Len(excluded_paths) = 0
    THEN [exc |-> "none", val |-> TRUE]
    ELSE LET p == RStrip(path, Slash) \o <<Slash>>
         IN [exc |-> "none",
             val |-> ~\E i \in 1..Len(excluded_paths) :
                        StartsWith(p, excluded_paths[i])]

\* Auth.require_auth
RequireAuth(path, excluded_paths) ==
    IF path = NoneStr
    THEN [exc |-> "none", val |-> TRUE]
    ELSE IF excluded_paths = NoneList \/ Len(excluded_paths) = 0
    THEN [exc |-> "none", val |-> TRUE]
    ELSE LET p == RStrip(path, Slash) \o <<Slash>>
         IN [exc |-> "none",
             val |-> ~\E i \in 1..Len(excluded_paths) :
                        StartsWith(p, excluded_paths[i])]

\* Auth.authorization_header; a request is absent (present is FALSE) or
\* carries the value of its Authorization header, NoneStr when it has none
AuthorizationHeader(request) ==
    IF ~request.present THEN NoneStr ELSE request.authorization

\* "Basic "
BasicPrefix == <<1, 26, 44, 34, 28, Space>>

\* BasicAuth.extract_base64_authorization_header
ExtractBase64AuthorizationHeader(authorization_header) ==
    IF authorization_header = NoneStr THEN NoneStr
    ELSE IF ~StartsWith(authorization_header, BasicPrefix) THEN NoneStr
    ELSE SubSeq(authorization_header, 7, Len(authorization_header))

\* binascii.a2b_base64 as base64.b64decode calls it: characters outside
\* the alphabet are skipped, a pad that completes a group ends the input,
\* an incomplete last group is an error (NoneStr)
RECURSIVE A2bBase64(_, _, _, _, _, _)
A2bBase64(s, i, quad_pos, leftchar, pads, out) ==
    IF i > Len(s)
    THEN IF quad_pos # 0 THEN NoneStr ELSE out
    ELSE LET c == s[i]
         IN IF c = Pad
            THEN IF quad_pos >= 2 /\ quad_pos + pads + 1 >= 4
                 THEN out
                 ELSE A2bBase64(s, i + 1, quad_pos, leftchar,
                                IF quad_pos >= 2 THEN pads + 1 ELSE pads, out)
            ELSE IF c > Pad
            THEN A2bBase64(s, i + 1, quad_pos, leftchar, pads, out)
            ELSE IF quad_pos = 0
            THEN A2bBase64(s, i + 1, 1, c, 0, out)
            ELSE IF quad_pos = 1
            THEN A2bBase64(s, i + 1, 2, c % 16, 0,
                           Append(out, leftchar * 4 + c \div 16))
            ELSE IF quad_pos = 2
            THEN A2bBase64(s, i + 1, 3, c % 4, 0,
                           Append(out, leftchar * 16 + c \div 4))
            ELSE A2bBase64(s, i + 1, 0, 0, 0, Append(out, leftchar * 64 + c))

\* bytes.decode('utf-8'): TRUE when the bytes from position i on are
\* well-formed UTF-8
RECURSIVE Utf8(_, _)
Utf8(b, i) ==
    LET Cont(j, lo, hi) == j <= Len(b) /\ b[j] >= lo /\ b[j] <= hi
    IN IF i > Len(b) THEN TRUE
       ELSE IF b[i] < 128 THEN Utf8(b, i + 1)
       ELSE IF b[i] >= 194 /\ b[i] <= 223
       THEN Cont(i + 1, 128, 191) /\ Utf8(b, i + 2)
       ELSE IF b[i] >= 224 /\ b[i] <= 239
       THEN /\ Cont(i + 1, IF b[i] = 224 THEN 160 ELSE 128,
                    IF b[i] = 237 THEN 159 ELSE 191)
            /\ Cont(i + 2, 128, 191)
            /\ Utf8(b, i + 3)
       ELSE IF b[i] >= 240 /\ b[i] <= 244
       THEN /\ Cont(i + 1, IF b[i] = 240 THEN 144 ELSE 128,
                    IF b[i] = 244 THEN 143 ELSE 191)
            /\ Cont(i + 2, 128, 191)
            /\ Cont(i + 3, 128, 191)
            /\ Utf8(b, i + 4)
       ELSE FALSE

\* BasicAuth.decode_base64_authorization_header
DecodeBase64AuthorizationHeader(base64_authorization_header) ==
    IF base64_authorization_header = NoneStr THEN NoneStr
    ELSE LET decoded_bytes ==
                 A2bBase64(base64_authorization_header, 1, 0, 0, 0, <<>>)
         IN IF decoded_bytes = NoneStr THEN NoneStr
            ELSE IF ~Utf8(decoded_bytes, 1) THEN NoneStr
            ELSE decoded_bytes

\* str.index(ch), 0 when ch is not in s
Index(s, ch) ==
    IF \E i \in 1..Len(s) : s[i] = ch
    THEN Min({i \in 1..Len(s) : s[i] = ch})
    ELSE 0

\* extract_user_credentials splitting on the last ':' instead of the first
ExtractUserCredentials_LastColon(decoded) ==
    IF decoded = NoneStr THEN <<NoneStr, NoneStr>>
    ELSE IF Index(decoded, Colon) = 0 THEN <<NoneStr, NoneStr>>
    ELSE LET last == CHOOSE i \in 1..Len(decoded) :
                         /\ decoded[i] = Colon
                         /\ \A j \in (i + 1)..Len(decoded) : decoded[j] # Colon
         IN <<SubSeq(decoded, 1, last - 1),
              SubSeq(decoded, last + 1, Len(decoded))>>

\* BasicAuth.extract_user_credentials
ExtractUserCredentials(decoded) ==
    IF decoded = NoneStr THEN <<NoneStr, NoneStr>>
    ELSE IF Index(decoded, Colon) = 0 THEN <<NoneStr, NoneStr>>
    ELSE <<SubSeq(decoded, 1, Index(decoded, Colon) - 1),
           SubSeq(decoded, Index(decoded, Colon) + 1, Len(decoded))>>

\* models.user.User: the stored accounts, a list of (email, password digest)
Sha256(pwd) == <<Len(pwd)>> \o [i \in 1..Len(pwd) |-> 255 - pwd[i]]

Account(email, pwd) == [email |-> email, password |-> Sha256(pwd)]

\* User.search({'email': email}): the positions of the accounts, in order
Search(store, email) ==
    {i \in 1..Len(store) : store[i].email = email}

\* User.is_valid_password
IsValidPassword(user, pwd) == Sha256(pwd) = user.password

\* BasicAuth.user_object_from_credentials (the position of the account)
UserObjectFromCredentials(user_email, user_pwd, store) ==
    IF user_email = NoneStr \/ user_pwd = NoneStr THEN None
    ELSE LET found == Search(store, user_email)
         IN IF found = {} THEN None
            ELSE IF ~IsValidPassword(store[Min(found)], user_pwd) THEN None
            ELSE Min(found)

\* current_user testing each step for None only
CurrentUser_NoneTests(request, store) ==
    LET auth_header == AuthorizationHeader(request)
        base64_part == ExtractBase64AuthorizationHeader(auth_header)
        decoded_str == DecodeBase64AuthorizationHeader(base64_part)
        cred == ExtractUserCredentials(decoded_str)
    IN IF auth_header = NoneStr THEN None
       ELSE IF base64_part = NoneStr THEN None
       ELSE IF decoded_str = NoneStr THEN None
       ELSE IF cred[1] = NoneStr \/ cred[2] = NoneStr THEN None
       ELSE UserObjectFromCredentials(cred[1], cred[2], store)

\* BasicAuth.current_user
CurrentUser(request, store) ==
    LET auth_header == AuthorizationHeader(request)
        base64_part == ExtractBase64AuthorizationHeader(auth_header)
        decoded_str == DecodeBase64AuthorizationHeader(base64_part)
        cred == ExtractUserCredentials(decoded_str)
    IN IF ~TruthyStr(auth_header) THEN None
       ELSE IF ~TruthyStr(base64_part) THEN None
       ELSE IF ~TruthyStr(decoded_str) THEN None
       ELSE IF ~TruthyStr(cred[1]) \/ ~TruthyStr(cred[2]) THEN None
       ELSE UserObjectFromCredentials(cred[1], cred[2], store)

\* the arguments of the calls: paths over '/' and 'a'; headers made of a
\* scheme ("Basic ", "Bearer " or none) and a payload over "YTpwoOnA=";
\* stores with the account 'a' whose password is 'p' or is empty
PathArgs == {NoneStr} \cup SeqsUpTo({Slash, 26}, MaxPathLen)

ExcludedArgs ==
    {NoneList, <<>>}
    \cup {<<e>> : e \in SeqsUpTo({Slash, 26}, MaxPathLen)}
    \cup {<<e, f>> : e, f \in SeqsUpTo({Slash, 26}, MaxPathLen)}

SchemeArgs == {BasicPrefix, <<1, 30, 26, 43, 30, 43, Space>>, <<>>}

PayloadChars == {24, 19, 41, 48, 40, 14, 39, 0, Pad}

HeaderArgs ==
    {NoneStr}
    \cup {scheme \o payload : scheme \in SchemeArgs,
                               payload \in SeqsUpTo(PayloadChars, MaxPayload)}

RequestArgs ==
    {[present |-> FALSE, authorization |-> NoneStr]}
    \cup {[present |-> TRUE, authorization |-> h] : h \in HeaderArgs}

StoreArgs ==
    {<<>>, <<Account(<<97>>, <<112>>)>>, <<Account(<<97>>, <<>>)>>}

\* One call of a function of the Basic auth API, made from the initial
\* state: ret records the function (op), its arguments (a1, a2) and its
\* outcome (kind, val).
Apply(op, a1, a2, kind, val) ==
    /\ ret' = [op |-> op, a1 |-> a1, a2 |-> a2, kind |-> kind, val |-> val,
               old |-> None]
    /\ UNCHANGED <<users, issued, plain, pc, loc>>

RequireAuthCall ==
    /\ ret.op = "init"
    /\ \E path \in PathArgs, excluded_paths \in ExcludedArgs :
          LET r == RequireAuth(path, excluded_paths)
          IN Apply("require_auth", path, excluded_paths,
                   IF r.exc = "none" THEN "return" ELSE r.exc, r.val)

CurrentUserCall ==
    /\ ret.op = "init"
    /\ \E request \in RequestArgs, store \in StoreArgs :
          Apply("current_user", request, store, "return",
                CurrentUser(request, store))

\* the decoded texts extract_user_credentials is called with: texts over
\* 'a', 'p' and ':'
TextArgs == {NoneStr} \cup SeqsUpTo({97, 112, Colon}, MaxTextLen)

ExtractUserCredentialsCall ==
    /\ ret.op = "init"
    /\ \E decoded \in TextArgs :
          Apply("extract_user_credentials", decoded, None, "return",
                ExtractUserCredentials(decoded))

\* ------------------------------------------------------ api/v1/app.py
\* "/api/v1"
ApiV1 == <<Slash, 26, 41, 34, Slash, 47, 53>>

\* '/api/v1/status/', '/api/v1/unauthorized/', '/api/v1/forbidden/'
ExcludedPaths ==
    <<ApiV1 \o <<Slash, 44, 45, 26, 45, 46, 44, Slash>>,
      ApiV1 \o <<Slash, 46, 39, 26, 46, 45, 33, 40, 43, 34, 51, 30, 29, Slash>>,
      ApiV1 \o <<Slash, 31, 40, 43, 27, 34, 29, 29, 30, 39, Slash>>>>

\* Auth.current_user / BasicAuth.current_user, by the class of auth
CurrentUserOf(auth, request, store) ==
    IF auth = "basic_auth" THEN CurrentUser(request, store) ELSE None

\* authenticate_user looking at the user before it looks at the header
AuthenticateUser_UserFirst(auth, path, request, store) ==
    IF auth = "none" THEN "pass"
    ELSE IF ~RequireAuth(path, ExcludedPaths).val THEN "pass"
    ELSE LET auth_header == AuthorizationHeader(request)
             user == CurrentUserOf(auth, request, store)
         IN IF user = None THEN "403"
            ELSE IF auth_header = NoneStr THEN "401"
            ELSE "pass"

\* authenticate_user (before_request): "pass" when it returns without abort
AuthenticateUser(auth, path, request, store) ==
    IF auth = "none" THEN "pass"
    ELSE IF ~RequireAuth(path, ExcludedPaths).val THEN "pass"
    ELSE LET auth_header == AuthorizationHeader(request)
             user == CurrentUserOf(auth, request, store)
         IN IF auth_header = NoneStr THEN "401"
            ELSE IF user = None THEN "403"
            ELSE "pass"

\* AUTH_TYPE: 'auth', 'basic_auth', or a value that leaves auth None
AuthArgs == {"auth", "basic_auth", "none"}

\* the paths of the requests: the excluded entries, an entry that is not
\* excluded ('/api/v1/users') and the root, with and without their trailing
\* slash and followed by some more characters; a path begins with '/'
GatePathArgs ==
    LET paths ==
            {RStrip(stem, Slash) \o tail :
                stem \in {ExcludedPaths[i] : i \in 1..Len(ExcludedPaths)}
                         \cup {ApiV1 \o <<Slash, 46, 44, 30, 43, 44>>, <<>>},
                tail \in SeqsUpTo({Slash, 26}, MaxPathLen)}
    IN {path \in paths : path # <<>> /\ path[1] = Slash}

\* the requests: no Authorization header, an empty one, "Basic YTpw"
\* (a:p), "Basic YTo=" (a:), "Bearer YTpw"
GateRequestArgs ==
    {[present |-> TRUE, authorization |-> h] :
        h \in {NoneStr, <<>>, BasicPrefix \o <<24, 19, 41, 48>>,
               BasicPrefix \o <<24, 19, 40, Pad>>,
               <<1, 30, 26, 43, 30, 43, Space, 24, 19, 41, 48>>}}

AuthenticateUserCall ==
    /\ ret.op = "init"
    /\ \E auth \in AuthArgs, path \in GatePathArgs,
          request \in GateRequestArgs, store \in StoreArgs :
          Apply("authenticate_user", path,
                [auth |-> auth, request |-> request, store |-> store],
                "return", AuthenticateUser(auth, path, request, store))

BasicNext ==
    \/ RequireAuthCall
    \/ CurrentUserCall
    \/ ExtractUserCredentialsCall
    \/ AuthenticateUserCall

BasicSpec == Init /\ [][BasicNext]_vars

\* ------------------------------------------------------------- properties
\* the id get_user_from_session_id resolves a token to (None if no account)
SessionUser(us, session_id) == GetUserFromSessionId(us, <<>>, session_id).val

\* the row with the id
Row(us, user_id) == us[FindUserBy(us, "id", user_id).row]

UserIds(us) == {us[i].id : i \in 1..Len(us)}

\* C1: when two register calls for the same e-mail overlap, exactly one of
\* them fails with ValueError (the e-mail being free when they began), and
\* the table never holds two rows with the same e-mail.
C1_RaceSurfacesToOneCaller ==
    /\ \A i, j \in 1..Len(users) : users[i].email = users[j].email => i = j
    /\ \A t1, t2 \in Threads :
          (/\ t1 # t2
           /\ pc[t1] = "idle" /\ pc[t2] = "idle"
           /\ loc[t1].op = "register_user" /\ loc[t2].op = "register_user"
           /\ loc[t1].overlap /\ loc[t2].overlap
           /\ loc[t1].email = loc[t2].email /\ loc[t1].email # None
           /\ loc[t1].password # None /\ loc[t2].password # None
           /\ \E t \in {t1, t2} : loc[t].kind = "return")
          => Cardinality({t \in {t1, t2} : loc[t].kind = "ValueError"}) = 1

\* C2: register_user for an e-mail that already has an account raises
\* ValueError and leaves the table exactly as it was.
C2_DuplicateRegisterChangesNothing ==
    [][(ret'.op = "register_user" /\ IdByEmail(users, ret'.a1) # None)
       => (ret'.kind = "ValueError" /\ users' = users)]_vars

C2_Witness ==
    /\ ret.op = "register_user" /\ ret.kind = "ValueError"
    /\ IdByEmail(users, ret.a1) # None

\* C3: the token create_session returns for an existing account resolves to
\* that account, and after destroy_session(id) no token generated for the
\* account resolves to any account.
C3_SessionRoundTrip ==
    /\ (ret.op = "create_session" /\ IdByEmail(users, ret.a1) # None)
       => (/\ ret.kind = "return" /\ ret.val # None
           /\ SessionUser(users, ret.val) = IdByEmail(users, ret.a1))
    /\ (ret.op = "destroy_session" /\ ret.a1 \in UserIds(users))
       => (/\ ret.kind = "return"
           /\ \A t \in 1..Len(issued) :
                 issued[t] = ret.a1 => SessionUser(users, t) = None)

C3_Witness ==
    /\ ret.op = "destroy_session" /\ ret.kind = "return"
    /\ ret.old # None /\ issued[ret.old] = ret.a1
    /\ SessionUser(users, ret.old) = None

\* C4: when update_password succeeds with the token a reset request issued,
\* valid_login accepts the new password and rejects the old one (if it
\* differs), and a further update_password with the same token raises
\* ValueError.
C4_ResetThenUpdate ==
    [][(ret'.op = "update_password" /\ ret'.kind = "return")
       => LET id == IdByResetToken(users, ret'.a1)
              email == Row(users, id).email
          IN /\ id # None /\ issued[ret'.a1] = id
             /\ ValidLogin(users', issued', email, plain'[id]).val = 1
             /\ plain[id] # plain'[id]
                => ValidLogin(users', issued', email, plain[id]).val = 0
             /\ \A p \in PasswordArgs, s \in Salts :
                   UpdatePassword(users', issued', ret'.a1, p, s).kind
                       = "ValueError"]_vars

C4_Witness ==
    /\ ret.op = "update_password" /\ ret.kind = "return"
    /\ ~Checkpw(plain[issued[ret.a1]], ret.old)

\* C5: valid_login(email, password) never raises; it returns True exactly
\* when an account with the e-mail exists and the password is the one last
\* set for it, and False otherwise.
C5_ValidLoginTotal ==
    \A email \in EmailArgs, password \in PasswordArgs :
        LET o == ValidLogin(users, issued, email, password)
            id == IdByEmail(users, email)
        IN /\ o.kind = "return"
           /\ o.val \in {0, 1}
           /\ o.val = 1 <=> (id # None /\ password = plain[id])

\* C6: no Auth call lets the store's NoResultFound escape; each call ends
\* only in the outcomes of its row of the operation table.
C6_NoStoreErrorEscapes ==
    LET row == [init |-> {"return"},
                register_user |-> {"return", "ValueError"},
                valid_login |-> {"return"},
                create_session |-> {"return"},
                get_user_from_session_id |-> {"return"},
                destroy_session |-> {"return"},
                get_reset_password_token |-> {"return", "ValueError"},
                update_password |-> {"return", "ValueError"}]
    IN ret.kind # "NoResultFound" /\ ret.kind \in row[ret.op]

\* C7: at most one token resolves to an account, and once create_session has
\* returned a token, no other token generated for that account resolves.
C7_OneLiveSession ==
    /\ \A id \in UserIds(users) :
          Cardinality({t \in Tokens : SessionUser(users, t) = id}) <= 1
    /\ (ret.op = "create_session" /\ ret.val # None)
       => \A t \in 1..Len(issued) :
             (issued[t] = IdByEmail(users, ret.a1) /\ t # ret.val)
             => SessionUser(users, t) = None

C7_Witness ==
    /\ ret.op = "create_session" /\ ret.val # None
    /\ ret.old # None /\ ret.old # ret.val
    /\ SessionUser(users, ret.val) = issued[ret.old]

\* C8: a session token keeps resolving to its account over every call except
\* a create_session or destroy_session for that account, and a reset token
\* keeps resolving to its account over every call except a reset request for
\* that account or a successful update_password with it.
C8_TokensLastUntilReplaced ==
    [][\A i \in 1..Len(users) :
          LET id == users[i].id
              sid == users[i].session_id
              rt == users[i].reset_token
          IN /\ (/\ sid # None
                 /\ ~(ret'.op = "create_session"
                      /\ IdByEmail(users, ret'.a1) = id)
                 /\ ~(ret'.op = "destroy_session" /\ ret'.a1 = id))
                => SessionUser(users', sid) = id
             /\ (/\ rt # None
                 /\ ~(ret'.op = "get_reset_password_token"
                      /\ IdByEmail(users, ret'.a1) = id)
                 /\ ~(ret'.op = "update_password" /\ ret'.a1 = rt
                      /\ ret'.kind = "return"))
                => IdByResetToken(users', rt) = id]_vars

C8_Witness ==
    /\ ret.op = "update_password" /\ ret.kind = "return"
    /\ Row(users, issued[ret.a1]).session_id # None
    /\ SessionUser(users, Row(users, issued[ret.a1]).session_id)
           = issued[ret.a1]

\* C9: an account holds a reset token exactly when one was requested for it
\* and not consumed since, and the call that consumes it stores the hash of
\* the new password and clears the token together: the hash changes in no
\* other call.
C9_ResetTokenLifecycle ==
    [][\A i \in 1..Len(users') :
          LET old == i <= Len(users)
              had == old /\ users[i].reset_token # None
              requested == /\ ret'.op = "get_reset_password_token"
                           /\ ret'.kind = "return"
                           /\ IdByEmail(users, ret'.a1) = users'[i].id
              consumed == /\ ret'.op = "update_password"
                          /\ ret'.kind = "return"
                          /\ had /\ ret'.a1 = users[i].reset_token
          IN /\ users'[i].reset_token # None
                <=> (requested \/ (had /\ ~consumed))
             /\ consumed
                => (/\ users'[i].reset_token = None
                    /\ Checkpw(plain'[i], users'[i].hashed_password))
             /\ (old /\ users'[i].hashed_password # users[i].hashed_password)
                => consumed]_vars

C9_Witness ==
    /\ ret.op = "update_password" /\ ret.kind = "return"
    /\ Row(users, issued[ret.a1]).reset_token = None
    /\ Row(users, issued[ret.a1]).hashed_password # ret.old

\* C10: no live session or reset token is held by two accounts, no live
\* session token equals a live reset token, and a token resolves only to the
\* account it was generated for.
C10_TokensDistinct ==
    /\ \A i, j \in 1..Len(users) :
          /\ (i # j /\ users[i].session_id # None)
             => users[i].session_id # users[j].session_id
          /\ (i # j /\ users[i].reset_token # None)
             => users[i].reset_token # users[j].reset_token
          /\ users[i].session_id # None
             => users[i].session_id # users[j].reset_token
    /\ \A t \in 1..Len(issued) :
          /\ SessionUser(users, t) \in {None, issued[t]}
          /\ IdByResetToken(users, t) \in {None, issued[t]}

C10_Witness ==
    /\ Len(users) = 2
    /\ users[1].session_id # None /\ users[2].reset_token # None
    /\ SessionUser(users, users[1].session_id) = 1
    /\ IdByResetToken(users, users[2].reset_token) = 2

\* C15: when two create_session calls for the same existing account overlap,
\* both return a token, the account ends with the token written last, only
\* that token resolves to the account, and the account is never left with no
\* session or with a token neither call generated.
C15_LastWriterWins ==
    /\ [](\A t1, t2 \in Threads :
            (/\ t1 # t2
             /\ pc[t1] = "idle" /\ pc[t2] = "idle"
             /\ loc[t1].op = "create_session" /\ loc[t2].op = "create_session"
             /\ loc[t1].overlap /\ loc[t2].overlap
             /\ loc[t1].user # None /\ loc[t1].user = loc[t2].user)
            => LET id == loc[t1].user
                   sid == Row(users, id).session_id
               IN /\ loc[t1].kind = "return" /\ loc[t2].kind = "return"
                  /\ loc[t1].val # None /\ loc[t2].val # None
                  /\ loc[t1].val # loc[t2].val
                  /\ sid \in {loc[t1].val, loc[t2].val}
                  /\ SessionUser(users, sid) = id
                  /\ \A v \in {loc[t1].val, loc[t2].val} \ {sid} :
                        SessionUser(users, v) = None)
    /\ [][\A t \in Threads :
            (pc[t] = "session_update" /\ pc'[t] = "idle")
            => (/\ loc'[t].kind = "return"
                /\ Row(users', loc[t].user).session_id = loc'[t].val)]_vars

C15_Witness ==
    \E t1, t2 \in Threads :
        /\ t1 # t2
        /\ pc[t1] = "idle" /\ pc[t2] = "idle"
        /\ loc[t1].op = "create_session" /\ loc[t2].op = "create_session"
        /\ loc[t1].overlap /\ loc[t2].overlap
        /\ loc[t1].user # None /\ loc[t1].user = loc[t2].user
        /\ loc[t1].val # None /\ loc[t2].val # None
        /\ loc[t1].val < loc[t2].val
        /\ Row(users, loc[t1].user).session_id = loc[t1].val

\* C17: a logout clears only the session token it presented: a token issued
\* to the account between the logout's lookup and its destroy_session still
\* resolves to the account when the logout completes.
C17_LogoutClearsOnlyItsToken ==
    [][\A t \in Threads :
          (pc[t] = "logout_destroy" /\ pc'[t] = "idle")
          => \A s \in Tokens \ {loc[t].token} :
                SessionUser(users, s) = loc[t].user
                => SessionUser(users', s) = loc[t].user]_vars

\* C16: a reset token authorizes at most one successful password update:
\* when two update_password calls carrying the same token overlap, at most
\* one of them succeeds and the other raises ValueError.
C16_ResetTokenSingleUse ==
    \A t1, t2 \in Threads :
        (/\ t1 # t2
         /\ pc[t1] = "idle" /\ pc[t2] = "idle"
         /\ loc[t1].op = "update_password" /\ loc[t2].op = "update_password"
         /\ loc[t1].overlap /\ loc[t2].overlap
         /\ Truthy(loc[t1].token) /\ loc[t1].token = loc[t2].token
         /\ loc[t1].password # None /\ loc[t2].password # None)
        => /\ Cardinality({t \in {t1, t2} : loc[t].kind = "return"}) <= 1
           /\ \E t \in {t1, t2} : loc[t].kind = "ValueError"

\* C18: update_user is all-or-nothing: when it fails (no row has the id, or
\* a keyword names no column) no field of any row is changed, the valid
\* fields named in the same call included.
C18_UpdateAllOrNothing ==
    [][(ret'.op = "update_user" /\ ret'.kind # "return")
       => users' = users]_vars

C18_Witness ==
    /\ ret.op = "update_user" /\ ret.kind = "ValueError"
    /\ ret.a1 \in UserIds(users) /\ ret.val >= 1
    /\ Row(users, ret.a1).reset_token # None

\* C19: update_user with an id that matches no row is a silent no-op: it
\* returns without error and changes no row.
C19_UpdateUnknownIdSilent ==
    (ret.op = "update_user" /\ ret.a1 \notin UserIds(users))
    => ret.kind = "return"

\* C20: an account, once created, exists in every later state with the same
\* id and e-mail, whatever operation of the service or the store runs,
\* construction included.
C20_AccountsPersist ==
    [][\A i \in 1..Len(users) :
          /\ i <= Len(users')
          /\ users'[i].id = users[i].id
          /\ users'[i].email = users[i].email]_vars

\* C11: end to end: registering a new e-mail succeeds and registering it
\* again is the already-registered client error; logging in with the
\* registered password answers with a fresh session token and with another
\* password is unauthorized; the profile fetched with the token of the
\* login returns the e-mail that logged in; logging out with that token
\* succeeds; the profile fetched with the token after the logout, or with
\* no session, is forbidden.
C11_Request ==
    LET id == IdByEmail(users, ret'.a1)
    IN /\ (ret'.op = "users" /\ Truthy(ret'.a1) /\ ret'.a2 # None)
          => IF id = None
             THEN ret'.kind = "200" /\ IdByEmail(users', ret'.a1) # None
             ELSE ret'.kind = "400" /\ users' = users
       /\ (ret'.op = "login" /\ id # None /\ ret'.a2 # None)
          => IF ret'.a2 = plain[id]
             THEN /\ ret'.kind = "200"
                  /\ ret'.val \in Tokens \ (1..Len(issued))
                  /\ SessionUser(users', ret'.val) = id
             ELSE ret'.kind = "401" /\ users' = users
       /\ (ret.op = "login" /\ ret.kind = "200"
           /\ ret'.op = "profile" /\ ret'.a1 = ret.val)
          => ret'.kind = "200" /\ ret'.val = ret.a1
       /\ (ret'.op = "logout" /\ Truthy(ret'.a1)
           /\ SessionUser(users, ret'.a1) # None)
          => ret'.kind = "302" /\ SessionUser(users', ret'.a1) = None
       /\ (ret.op = "logout" /\ ret.kind = "302"
           /\ ret'.op = "profile" /\ ret'.a1 = ret.a1)
          => ret'.kind = "403"
       /\ (ret'.op = "profile" /\ ~Truthy(ret'.a1))
          => ret'.kind = "403"

C11_EndToEnd == [][C11_Request]_vars

C11_Witness ==
    /\ ret.op = "profile" /\ ret.kind = "403"
    /\ ret.a1 \in 1..Len(issued)
    /\ Row(users, issued[ret.a1]).session_id = None

\* C12: require_auth returns false if and only if the normalized path has
\* as a prefix some entry of excluded_paths, normalized the same way (so
\* that an excluded "/a" does not exclude "/aa").
C12_ExcludedPrefixNormalized ==
    LET Normalized(s) == RStrip(s, Slash) \o <<Slash>>
    IN (ret.op = "require_auth" /\ ret.a1 # NoneStr /\ ret.a2 # NoneList)
       => /\ ret.kind = "return"
          /\ ret.val = FALSE
             <=> \E i \in 1..Len(ret.a2) :
                    StartsWith(Normalized(ret.a1), Normalized(ret.a2[i]))

\* C13: require_auth returns true whenever the path is absent or the empty
\* string, or excluded_paths is absent or the empty list.
C13_EmptyArgumentsRequireAuth ==
    (/\ ret.op = "require_auth"
     /\ ret.a1 \in {NoneStr, <<>>} \/ ret.a2 \in {NoneList, <<>>})
    => ret.kind = "return" /\ ret.val = TRUE

\* C13 as amended: require_auth returns true whenever the path is absent, or
\* excluded_paths is absent or the empty list.
C13_AbsentArgumentsRequireAuth ==
    (/\ ret.op = "require_auth"
     /\ ret.a1 = NoneStr \/ ret.a2 \in {NoneList, <<>>})
    => ret.kind = "return" /\ ret.val = TRUE

C13_Witness ==
    /\ ret.op = "require_auth" /\ ret.a1 = NoneStr
    /\ ret.a2 = <<<<Slash>>>>
    /\ ret.val = TRUE

\* C14: current_user never faults and returns exactly the result of the
\* five steps chained: none as soon as one step yields none, and otherwise
\* the account the credentials resolve to.
C14_CurrentUserIsTheChain ==
    LET header == AuthorizationHeader(ret.a1)
        payload == ExtractBase64AuthorizationHeader(header)
        decoded == DecodeBase64AuthorizationHeader(payload)
        pair == ExtractUserCredentials(decoded)
        steps == {header, payload, decoded, pair[1], pair[2]}
        chained == IF NoneStr \in steps THEN None
                   ELSE UserObjectFromCredentials(pair[1], pair[2], ret.a2)
    IN ret.op = "current_user"
       => ret.kind = "return" /\ ret.val = chained

\* C14 as amended: current_user never faults and returns none as soon as one
\* step yields none or the empty string (header, payload, decoded text,
\* e-mail or password), and otherwise the account the credentials resolve
\* to.
C14_CurrentUserIsTheChainOfNonEmpty ==
    LET header == AuthorizationHeader(ret.a1)
        payload == ExtractBase64AuthorizationHeader(header)
        decoded == DecodeBase64AuthorizationHeader(payload)
        pair == ExtractUserCredentials(decoded)
        steps == {header, payload, decoded, pair[1], pair[2]}
        chained == IF NoneStr \in steps THEN None
                   ELSE UserObjectFromCredentials(pair[1], pair[2], ret.a2)
    IN ret.op = "current_user"
       => /\ ret.kind = "return"
          /\ ret.val = IF <<>> \in steps THEN None ELSE chained

C14_Witness ==
    /\ ret.op = "current_user" /\ ret.val = 1
    /\ ret.a1.authorization = BasicPrefix \o <<24, 19, 41, 48>>

\* C21: extract_user_credentials splits on the first ':' only: the text
\* email + ':' + password, for an e-mail without ':' and any password (one
\* with ':' included), gives exactly (email, password); a text without ':'
\* gives (None, None).
C21_SplitOnFirstColon ==
    (ret.op = "extract_user_credentials" /\ ret.a1 # NoneStr)
    => /\ ret.kind = "return"
       /\ (\A i \in 1..Len(ret.a1) : ret.a1[i] # Colon)
          => ret.val = <<NoneStr, NoneStr>>
       /\ \A k \in 1..Len(ret.a1) :
             LET email == SubSeq(ret.a1, 1, k - 1)
                 password == SubSeq(ret.a1, k + 1, Len(ret.a1))
             IN (/\ ret.a1[k] = Colon
                 /\ \A i \in 1..Len(email) : email[i] # Colon)
                => ret.val = <<email, password>>

C21_Witness ==
    /\ ret.op = "extract_user_credentials"
    /\ ret.a1 = <<97, Colon, Colon, 112>>
    /\ ret.val = <<<<97>>, <<Colon, 112>>>>

\* C22: with an auth object in place, a request whose path requires
\* authentication is answered 401 when it has no Authorization header and
\* 403 when it has one and current_user is None, and passes only when
\* current_user is a user; a request on an excluded path always passes.
C22_GateRejects ==
    LET Normalized(s) == RStrip(s, Slash) \o <<Slash>>
        excluded == \E i \in 1..Len(ExcludedPaths) :
                       StartsWith(Normalized(ret.a1),
                                  Normalized(ExcludedPaths[i]))
        header == ret.a2.request.authorization
        user == CurrentUserOf(ret.a2.auth, ret.a2.request, ret.a2.store)
    IN (ret.op = "authenticate_user" /\ ret.a2.auth # "none")
       => /\ excluded => ret.val = "pass"
          /\ (~excluded /\ header = NoneStr) => ret.val = "401"
          /\ (~excluded /\ header # NoneStr /\ user = None) => ret.val = "403"
          /\ (~excluded /\ ret.val = "pass") => user # None

C22_Witness ==
    /\ ret.op = "authenticate_user" /\ ret.val = "pass"
    /\ ret.a2.auth = "basic_auth"
    /\ RequireAuth(ret.a1, ExcludedPaths).val
    /\ CurrentUser(ret.a2.request, ret.a2.store) = 1

\* C23: update_password with an absent or empty reset token fails with
\* ValueError and changes no row, also when some account has no pending
\* reset; get_user_from_session_id with an absent or empty session id
\* returns no user, also when some account has no session.
C23_AbsentTokensMatchNothing ==
    [][/\ (ret'.op = "update_password" /\ ~Truthy(ret'.a1))
          => ret'.kind = "ValueError" /\ users' = users
       /\ (ret'.op = "get_user_from_session_id" /\ ~Truthy(ret'.a1))
          => ret'.kind = "return" /\ ret'.val = None /\ users' = users]_vars

C23_Witness ==
    /\ ret.op = "update_password" /\ ret.a1 = None
    /\ ret.kind = "ValueError"
    /\ \E i \in 1..Len(users) :
          users[i].reset_token = None /\ users[i].session_id = None
    /\ \E i \in 1..Len(users) : users[i].reset_token # None

\* C24: the passwords valid_login accepts for an account change only by a
\* successful update_password that carries the live reset token of that
\* account.
C24_PasswordChangesOnlyByReset ==
    [][\A i \in 1..Len(users) :
          LET Accepted(us) ==
                  {p \in Passwords \cup {EmptyStr} :
                      Checkpw(p, us[i].hashed_password)}
          IN Accepted(users') # Accepted(users)
             => /\ ret'.op = "update_password" /\ ret'.kind = "return"
                /\ Truthy(ret'.a1) /\ users[i].reset_token = ret'.a1]_vars

C24_Witness ==
    /\ ret.op = "update_password" /\ ret.kind = "return"
    /\ Len(users) = 2
    /\ \E i \in 1..Len(users) :
          /\ ret.old # users[i].hashed_password
          /\ ~Checkpw(plain[i], ret.old)
          /\ \A j \in 1..Len(users) \ {i} : users[j].hashed_password # ret.old

\* C25: create_session, destroy_session, get_reset_password_token and
\* update_password leave the session id, the reset token and the password
\* hash of every account but the one they target unchanged.
C25_OnlyTheTargetChanges ==
    [][LET target ==
               IF ret'.op \in {"create_session", "get_reset_password_token"}
               THEN IdByEmail(users, ret'.a1)
               ELSE IF ret'.op = "destroy_session" THEN ret'.a1
               ELSE IdByResetToken(users, ret'.a1)
       IN ret'.op \in {"create_session", "destroy_session",
                       "get_reset_password_token", "update_password"}
          => /\ Len(users') = Len(users)
             /\ \A i \in 1..Len(users) :
                   users[i].id # target
                   => /\ users'[i].session_id = users[i].session_id
                      /\ users'[i].reset_token = users[i].reset_token
                      /\ users'[i].hashed_password = users[i].hashed_password]_vars

C25_Witness ==
    /\ ret.op = "destroy_session" /\ ret.kind = "return"
    /\ ret.old # None
    /\ \E i \in 1..Len(users) :
          /\ users[i].id # ret.a1
          /\ users[i].session_id # None

\* C26: create_session for an unknown e-mail (returns None),
\* get_reset_password_token for an unknown e-mail (ValueError) and
\* update_password with a token no account holds (ValueError) change no
\* field of any account; valid_login and get_user_from_session_id never do.
C26_FailingPathsChangeNothing ==
    [][(\/ ret'.op = "create_session" /\ IdByEmail(users, ret'.a1) = None
        \/ ret'.op = "get_reset_password_token"
           /\ IdByEmail(users, ret'.a1) = None
        \/ ret'.op = "update_password"
           /\ IdByResetToken(users, ret'.a1) = None
        \/ ret'.op \in {"valid_login", "get_user_from_session_id"})
       => /\ users' = users
          /\ ret'.op = "create_session"
             => ret'.kind = "return" /\ ret'.val = None
          /\ ret'.op \in {"get_reset_password_token", "update_password"}
             => ret'.kind = "ValueError"]_vars

C26_Witness ==
    /\ ret.op = "get_reset_password_token" /\ ret.kind = "ValueError"
    /\ Truthy(ret.a1)
    /\ \E i \in 1..Len(users) :
          users[i].session_id # None /\ users[i].reset_token # None

====
